---- MODULE Spec2Model ----
(***************************************************************************)
(* The transaction lifecycle of the M-Pesa STK push backend (server.js):   *)
(* the in-memory Map `transactions`, the asynchronous stk-push handler     *)
(* (two awaits: the token call and the push request), the synchronous      *)
(* callback handler and the synchronous status query.                      *)
(*                                                                         *)
(* Node runs one handler at a time up to its next await, so every action   *)
(* below is one such run-to-completion segment.                            *)
(***************************************************************************)
EXTENDS Integers, Sequences, FiniteSets, Bags, TLC

(***************************************************************************)
(* Bounds of the model.                                                    *)
(***************************************************************************)
MaxRequests == 2    \* stk-push requests received (they may be in flight together)
MaxCallbacks == 2   \* webhook deliveries handled
MaxClock == 1       \* the clock takes the values 0..MaxClock

(***************************************************************************)
(* JavaScript values.  A value is a tagged tuple; a property that is not   *)
(* set on an object is None, one that is set to v is Some(v).              *)
(***************************************************************************)
Undef == <<"undefined">>
NaN == <<"NaN">>
Str(s) == <<"string", s>>
Num(n) == <<"number", n>>
IsStr(v) == v[1] = "string"
IsNum(v) == v[1] = "number"
None == <<>>
Some(v) == <<v>>

\* !v for the values above: undefined, NaN, 0 and "" are falsy.
Falsy(v) ==
  \/ v = Undef
  \/ v = NaN
  \/ (IsNum(v) /\ v[2] = 0)
  \/ (IsStr(v) /\ v[2] = <<>>)

\* String.prototype.startsWith on a sequence of characters.
StartsWith(s, pre) ==
  /\ Len(s) >= Len(pre)
  /\ SubSeq(s, 1, Len(pre)) = pre

\* String.prototype.slice(n) with n >= 0.
Slice(s, n) == SubSeq(s, n + 1, Len(s))

\* String.prototype.substring(0, n).
Substring0(s, n) == SubSeq(s, 1, IF Len(s) < n THEN Len(s) ELSE n)

RECURSIVE TrimLeft(_)
TrimLeft(s) ==
  IF s # <<>> /\ Head(s) = " " THEN TrimLeft(Tail(s)) ELSE s

RECURSIVE TrimRight(_)
TrimRight(s) ==
  IF s # <<>> /\ s[Len(s)] = " " THEN TrimRight(SubSeq(s, 1, Len(s) - 1)) ELSE s

\* String.prototype.trim.
Trim(s) == TrimRight(TrimLeft(s))

Digits == <<"0", "1", "2", "3", "4", "5", "6", "7", "8", "9">>
IsDigit(c) == \E i \in 1..Len(Digits) : Digits[i] = c
DigitVal(c) == (CHOOSE i \in 1..Len(Digits) : Digits[i] = c) - 1

\* The leading run of digits of s, read as a number, starting from acc.
RECURSIVE ParseDigits(_, _)
ParseDigits(s, acc) ==
  IF s # <<>> /\ IsDigit(Head(s))
    THEN ParseDigits(Tail(s), 10 * acc + DigitVal(Head(s)))
    ELSE acc

\* parseInt(v): a number is converted to its decimal text and read back, a
\* string is read after leading blanks and an optional sign up to the first
\* character that is no digit; no digit at all gives NaN.
ParseInt(v) ==
  IF IsNum(v) THEN v
  ELSE IF ~IsStr(v) THEN NaN
  ELSE LET t == TrimLeft(v[2])
           neg == t # <<>> /\ Head(t) = "-"
           u == IF t # <<>> /\ Head(t) \in {"-", "+"} THEN Tail(t) ELSE t
       IN IF u = <<>> \/ ~IsDigit(Head(u)) THEN NaN
          ELSE Num(IF neg THEN 0 - ParseDigits(u, 0) ELSE ParseDigits(u, 0))

\* A variant of FormatPhone that strips a leading + whatever follows it.
FormatPhone_StripsAnyPlus(phone) ==
  LET formattedPhone == Trim(phone)
  IN IF StartsWith(formattedPhone, <<"0">>)
       THEN <<"2", "5", "4">> \o Slice(formattedPhone, 1)
     ELSE IF StartsWith(formattedPhone, <<"+">>)
       THEN Slice(formattedPhone, 1)
     ELSE IF ~StartsWith(formattedPhone, <<"2", "5", "4">>)
       THEN <<"2", "5", "4">> \o formattedPhone
     ELSE formattedPhone

\* The phone formatting of the stk-push handler, on the trimmed text.
FormatPhone(phone) ==
  LET formattedPhone == Trim(phone)
  IN IF StartsWith(formattedPhone, <<"0">>)
       THEN <<"2", "5", "4">> \o Slice(formattedPhone, 1)
     ELSE IF StartsWith(formattedPhone, <<"+", "2", "5", "4">>)
       THEN Slice(formattedPhone, 1)
     ELSE IF ~StartsWith(formattedPhone, <<"2", "5", "4">>)
       THEN <<"2", "5", "4">> \o formattedPhone
     ELSE formattedPhone

\* The gateway's limit on AccountReference.
AccountRefMax == 12

(***************************************************************************)
(* The Map: a function whose domain is the set of keys present.            *)
(***************************************************************************)
MapHas(m, k) == k \in DOMAIN m
MapSet(m, k, v) == [x \in (DOMAIN m) \cup {k} |-> IF x = k THEN v ELSE m[x]]
EmptyMap == [x \in {} |-> None]

(***************************************************************************)
(* Inputs the environment supplies.                                        *)
(***************************************************************************)
\* CheckoutRequestID values the gateway issues; UndefinedKey is the value
\* `undefined` of a response or webhook that carries no CheckoutRequestID,
\* which a Map takes as a key like any other.
CheckoutIds == {"ws_CO_1"}
UndefinedKey == "<undefined>"
AllKeys == CheckoutIds \cup {UndefinedKey}

\* req.body of the stk-push route: each field missing, a number or a string.
PhoneInputs == { Undef, Num(7), Str(<<"0", "7">>), Str(<<"+", "2", "5", "4", "7">>) }
AmountInputs == { Undef, Num(0), Str(<<"1", "0", "0">>) }
LongRef == <<"I", "N", "V", "-", "2", "0", "2", "6", "-", "0", "0", "0", "1">>
AccountRefInputs == { Undef, Num(1), Str(LongRef) }

CustomerMessage == Some("Success. Request accepted for processing")

\* What the token call settles to: it throws (an error or the 10 s timeout),
\* or it resolves to response.data.access_token, which may be undefined.
TokenOutcomes == { <<"throws">>, <<"resolves", Str(<<"t">>)>>, <<"resolves", Undef>> }

\* What the push request settles to: it throws (an error, a non-2xx status
\* or the 30 s timeout), or it resolves to response.data.
PushOutcomes ==
  { <<"throws">> } \cup { <<"resolves", id>> : id \in AllKeys }

\* CallbackMetadata.Item entries: {Name, Value} objects and null.
NullItem == <<>>
ItemAmount == <<"Amount", 100>>
ItemReceipt == <<"MpesaReceiptNumber", "QKR4">>
ItemBalance == <<"Balance", 0>>
ItemDate == <<"TransactionDate", 20261103>>
ItemPhone == <<"PhoneNumber", 2547>>

\* The Item lists delivered: the gateway's full list, lists with some of the
\* items, and lists with a null entry at the start, inside and at the end.
ItemLists ==
  { <<>>,
    <<ItemAmount, ItemReceipt, ItemBalance, ItemDate, ItemPhone>>,
    <<ItemAmount>>,
    <<ItemReceipt, ItemPhone>>,
    <<NullItem, ItemAmount>>,
    <<ItemAmount, NullItem, ItemReceipt>>,
    <<ItemDate, NullItem>> }

\* stkCallback.CallbackMetadata: absent (or without Item), with an Item that
\* is no array, or with an Item list.
Metadatas ==
  { <<"absent">>, <<"notArray">> } \cup { <<"list", items>> : items \in ItemLists }

ResultCodes == { Num(0), Num(1032), Str(<<"0">>) }
ResultDescs == { None, Some("Request cancelled by user") }

\* The stkCallback objects delivered.  The handler reads CallbackMetadata
\* only when ResultCode is 0 and ResultDesc only when it is not, so the
\* field a delivery's branch does not read is held fixed.
StkCallbacks ==
  [ CheckoutRequestID : AllKeys,
    ResultCode : { Num(0) },
    ResultDesc : { Some("The service request is processed successfully.") },
    CallbackMetadata : Metadatas ]
  \cup
  [ CheckoutRequestID : AllKeys,
    ResultCode : ResultCodes \ { Num(0) },
    ResultDesc : ResultDescs,
    CallbackMetadata : { <<"absent">> } ]

\* req.body of the callback route: without Body.stkCallback, or with one.
CallbackBodies == { None } \cup { Some(cb) : cb \in StkCallbacks }

(***************************************************************************)
(* State.  The responses are outputs: each holds what the handler run that *)
(* was the last step sent, and nothing when the last step was another one. *)
(***************************************************************************)
VARIABLES
  transactions,  \* the Map of line 27
  clock,         \* what new Date() returns
  inflight,      \* the stk-push handlers suspended at an await (a bag)
  received,      \* stk-push requests received so far
  delivered,     \* webhook deliveries handled so far
  posted,        \* the push request the last step posted to the gateway
  stkRes,        \* the stk-push route's response, sent by the last step
  cbRes,         \* the callback route's response, sent by the last step
  getRes,        \* the status route's response, sent by the last step
  partial,       \* keys whose record a callback handler left when it threw
  readPartial,   \* the last step's status response showed such a record
  gateway        \* the gateway: requests accepted, keys issued, webhooks handled

vars ==
  << transactions, clock, inflight, received, delivered, posted, stkRes,
     cbRes, getRes, partial, readPartial, gateway >>

\* The stk-push responses: lines 93-96, 148-153 and 157-161.
NoStkRes == [ status |-> 0, checkoutRequestId |-> None, details |-> "" ]
Res400 == [ status |-> 400, checkoutRequestId |-> None, details |-> "" ]
Res500(details) == [ status |-> 500, checkoutRequestId |-> None, details |-> details ]
Res200(id) == [ status |-> 200, checkoutRequestId |-> Some(id), details |-> "" ]

\* The callback responses: lines 200-203 and 207-210.
NoAck == [ status |-> 0, ResultCode |-> 0 ]
AckSuccess == [ status |-> 200, ResultCode |-> 0 ]
AckFailed == [ status |-> 500, ResultCode |-> 1 ]

\* The gateway before any request: `responses` are the accepted requests
\* whose response has not reached the handler yet, each with its handler and
\* the CheckoutRequestID issued; `issued` are the keys issued so far;
\* `handled` are those whose webhook the callback route has handled.
NoTraffic == [ responses |-> {}, issued |-> {}, handled |-> {} ]

\* The status responses: lines 220-223 and 226-229.
NoGetRes == [ status |-> 0, transaction |-> None ]
Res404 == [ status |-> 404, transaction |-> None ]
\* A variant of ResFound that shows every record as pending.
ResFound_ShowsPending(transaction) ==
  [ status |-> 200, transaction |-> Some([transaction EXCEPT !.status = "pending"]) ]
ResFound(transaction) == [ status |-> 200, transaction |-> Some(transaction) ]

Init ==
  /\ transactions = EmptyMap
  /\ clock = 0
  /\ inflight = EmptyBag
  /\ received = 0
  /\ delivered = 0
  /\ posted = None
  /\ stkRes = NoStkRes
  /\ cbRes = NoAck
  /\ getRes = NoGetRes
  /\ partial = {}
  /\ readPartial = FALSE
  /\ gateway = NoTraffic

\* A handler suspends at an await, resumes, or ends.
Suspend(h) == inflight (+) SetToBag({h})
Resume(h, h2) == (inflight (-) SetToBag({h})) (+) SetToBag({h2})
End(h) == inflight (-) SetToBag({h})

(***************************************************************************)
(* The stk-push handler.                                                   *)
(***************************************************************************)
\* A variant of NewTransaction that stamps completedAt beside createdAt.
NewTransaction_StampsCompletedAt(formattedPhone, amount, accountRef, now, customerMessage) ==
  [ phone |-> formattedPhone,
    amount |-> ParseInt(amount),
    accountRef |-> accountRef,
    status |-> "pending",
    createdAt |-> now,
    customerMessage |-> customerMessage,
    completedAt |-> Some(now),
    errorMessage |-> None,
    actualAmount |-> None,
    receiptNumber |-> None,
    transactionDate |-> None,
    payerPhone |-> None ]

\* The object stored at lines 139-146: six properties, all others unset.
NewTransaction(formattedPhone, amount, accountRef, now, customerMessage) ==
  [ phone |-> formattedPhone,
    amount |-> ParseInt(amount),
    accountRef |-> accountRef,
    status |-> "pending",
    createdAt |-> now,
    customerMessage |-> customerMessage,
    completedAt |-> None,
    errorMessage |-> None,
    actualAmount |-> None,
    receiptNumber |-> None,
    transactionDate |-> None,
    payerPhone |-> None ]

\* The request body posted to the gateway, lines 112-124 (Password and
\* Timestamp, which nothing stored depends on, are left out), with the
\* bearer token of the Authorization header.
StkPushPayload(formattedPhone, amount, accountRef, accessToken) ==
  [ Amount |-> ParseInt(amount),
    PartyA |-> formattedPhone,
    PhoneNumber |-> formattedPhone,
    AccountReference |-> Substring0(accountRef, AccountRefMax),
    accessToken |-> accessToken ]

\* Line 92.
Invalid(phone, amount, accountRef) ==
  Falsy(phone) \/ Falsy(amount) \/ Falsy(accountRef)

\* Lines 89-109: validate, format the phone, call getAccessToken.  A phone
\* that is no string has no trim method: the TypeError is caught at line 155.
StkPushStart(phone, amount, accountRef) ==
  /\ received < MaxRequests
  /\ received' = received + 1
  /\ IF Invalid(phone, amount, accountRef)
       THEN /\ stkRes' = Res400
            /\ inflight' = inflight
     ELSE IF ~IsStr(phone)
       THEN /\ stkRes' = Res500("phone.trim is not a function")
            /\ inflight' = inflight
     ELSE /\ stkRes' = NoStkRes
          /\ inflight' = Suspend([ pc |-> "awaitToken",
                                   formattedPhone |-> FormatPhone(phone[2]),
                                   amount |-> amount,
                                   accountRef |-> accountRef,
                                   accessToken |-> Undef ])
  /\ posted' = None
  /\ cbRes' = NoAck
  /\ getRes' = NoGetRes
  /\ readPartial' = FALSE
  /\ UNCHANGED << transactions, clock, delivered, partial >>

\* Lines 52-73 and 109-136: getAccessToken settles.  When it throws, the
\* error is rethrown and caught at line 155.  Otherwise the payload is built
\* (an accountRef that is no string has no substring method: TypeError) and
\* posted.
TokenSettles(h, outcome) ==
  /\ BagIn(h, inflight)
  /\ h.pc = "awaitToken"
  /\ IF outcome[1] = "throws"
       THEN /\ stkRes' = Res500("access token error")
            /\ inflight' = End(h)
            /\ posted' = None
     ELSE IF ~IsStr(h.accountRef)
       THEN /\ stkRes' = Res500("accountRef.substring is not a function")
            /\ inflight' = End(h)
            /\ posted' = None
     ELSE /\ stkRes' = NoStkRes
          /\ inflight' = Resume(h, [h EXCEPT !.pc = "awaitPush",
                                             !.accessToken = outcome[2]])
          /\ posted' = Some(StkPushPayload(h.formattedPhone, h.amount,
                                           h.accountRef[2], outcome[2]))
  /\ cbRes' = NoAck
  /\ getRes' = NoGetRes
  /\ readPartial' = FALSE
  /\ UNCHANGED << transactions, clock, received, delivered, partial >>

\* The gateway refuses a push request whose bearer token is undefined.
GatewayAccepts(accessToken) == accessToken # Undef

\* Line 139: transactions.set(transactionId, {...}).
StoreTransaction(m, transactionId, transaction) ==
  MapSet(m, transactionId, transaction)

\* A variant of CatchStkPushError that records the failed attempt, under the
\* transactionId that was never assigned.
CatchStkPushError_RecordsFailure(m, h, now) ==
  MapSet(m, UndefinedKey,
         [NewTransaction(h.formattedPhone, h.amount, h.accountRef[2], now, None)
            EXCEPT !.status = "failed"])

\* Lines 155-162: the catch block logs and answers 500; the Map is not
\* touched.
CatchStkPushError(m, h, now) == m

\* Lines 126-162: the push request settles.  When it throws, the catch at
\* line 155 answers 500.  Otherwise the record is set under
\* response.data.CheckoutRequestID and the caller is told that key.
PushSettles(h, outcome) ==
  /\ BagIn(h, inflight)
  /\ h.pc = "awaitPush"
  /\ outcome[1] = "resolves" => GatewayAccepts(h.accessToken)
  /\ inflight' = End(h)
  /\ IF outcome[1] = "throws"
       THEN /\ stkRes' = Res500("stk push error")
            /\ transactions' = CatchStkPushError(transactions, h, clock)
            /\ partial' = partial
       ELSE LET transactionId == outcome[2]
            IN /\ transactions' =
                    StoreTransaction(transactions, transactionId,
                                     NewTransaction(h.formattedPhone, h.amount,
                                                    h.accountRef[2], clock,
                                                    CustomerMessage))
               /\ partial' = partial \ {transactionId}
               /\ stkRes' = Res200(transactionId)
  /\ posted' = None
  /\ cbRes' = NoAck
  /\ getRes' = NoGetRes
  /\ readPartial' = FALSE
  /\ UNCHANGED << clock, received, delivered >>

(***************************************************************************)
(* The callback handler.                                                   *)
(***************************************************************************)
\* A variant of CopyItem that never copies TransactionDate.
CopyItem_MissesDate(transaction, item) ==
  LET t1 == IF item[1] = "Amount"
              THEN [transaction EXCEPT !.actualAmount = Some(item[2])]
              ELSE transaction
      t2 == IF item[1] = "MpesaReceiptNumber"
              THEN [t1 EXCEPT !.receiptNumber = Some(item[2])]
              ELSE t1
  IN IF item[1] = "PhoneNumber"
       THEN [t2 EXCEPT !.payerPhone = Some(item[2])]
       ELSE t2

\* One turn of the forEach callback of lines 184-189.
CopyItem(transaction, item) ==
  LET t1 == IF item[1] = "Amount"
              THEN [transaction EXCEPT !.actualAmount = Some(item[2])]
              ELSE transaction
      t2 == IF item[1] = "MpesaReceiptNumber"
              THEN [t1 EXCEPT !.receiptNumber = Some(item[2])]
              ELSE t1
      t3 == IF item[1] = "TransactionDate"
              THEN [t2 EXCEPT !.transactionDate = Some(item[2])]
              ELSE t2
  IN IF item[1] = "PhoneNumber"
       THEN [t3 EXCEPT !.payerPhone = Some(item[2])]
       ELSE t3

\* Item.forEach: reading item.Name of a null item throws a TypeError, which
\* ends the loop with the earlier items' copies made.
RECURSIVE ForEachItem(_, _)
ForEachItem(transaction, items) ==
  IF items = <<>> THEN [ transaction |-> transaction, threw |-> FALSE ]
  ELSE IF Head(items) = NullItem
    THEN [ transaction |-> transaction, threw |-> TRUE ]
  ELSE ForEachItem(CopyItem(transaction, Head(items)), Tail(items))

\* Lines 180-190, the branch resultCode === 0.  An Item that is no array has
\* no forEach method: the TypeError comes after lines 180-181 have run.
ApplySuccess(transaction, stkCallback, now) ==
  LET completed ==
        [transaction EXCEPT !.status = "completed", !.completedAt = Some(now)]
      metadata == stkCallback.CallbackMetadata
  IN IF metadata[1] = "absent"
       THEN [ transaction |-> completed, threw |-> FALSE ]
     ELSE IF metadata[1] = "notArray"
       THEN [ transaction |-> completed, threw |-> TRUE ]
     ELSE ForEachItem(completed, metadata[2])

\* A variant of ApplyFailure that stamps completedAt on a failure as well.
ApplyFailure_StampsCompletedAt(transaction, stkCallback, now) ==
  [ transaction |->
      [transaction EXCEPT !.status = "failed",
                          !.completedAt = Some(now),
                          !.errorMessage = stkCallback.ResultDesc],
    threw |-> FALSE ]

\* A variant of ApplyFailure that stamps createdAt anew.
ApplyFailure_RestampsCreatedAt(transaction, stkCallback, now) ==
  [ transaction |->
      [transaction EXCEPT !.status = "failed",
                          !.createdAt = now,
                          !.errorMessage = stkCallback.ResultDesc],
    threw |-> FALSE ]

\* Lines 192-193, the else branch.
ApplyFailure(transaction, stkCallback, now) ==
  [ transaction |->
      [transaction EXCEPT !.status = "failed",
                          !.errorMessage = stkCallback.ResultDesc],
    threw |-> FALSE ]

\* Lines 179-194 on the object the Map holds.
ApplyResult(transaction, stkCallback, now) ==
  IF stkCallback.ResultCode = Num(0)
    THEN ApplySuccess(transaction, stkCallback, now)
    ELSE ApplyFailure(transaction, stkCallback, now)

\* Lines 171 and 176: the guards under which a record is touched.
Matches(m, body) ==
  /\ body # None
  /\ MapHas(m, body[1].CheckoutRequestID)

\* A variant of HandleCallback that answers ResultCode 1 when no record
\* matches the delivery.
HandleCallback_NacksUnmatched(m, body, now) ==
  IF Matches(m, body)
    THEN LET checkoutRequestId == body[1].CheckoutRequestID
             r == ApplyResult(m[checkoutRequestId], body[1], now)
         IN [ transactions |-> MapSet(m, checkoutRequestId, r.transaction),
              res |-> IF r.threw THEN AckFailed ELSE AckSuccess,
              touched |-> {checkoutRequestId},
              threw |-> r.threw ]
    ELSE [ transactions |-> m, res |-> AckFailed, touched |-> {},
           threw |-> FALSE ]

\* Lines 167-211: what the handler leaves in the Map and what it answers.
\* `transaction` is the object in the Map, not a copy: what lines 180-193
\* assign is in the Map at once, also when a later line throws and line 196
\* is never reached.
HandleCallback(m, body, now) ==
  IF Matches(m, body)
    THEN LET checkoutRequestId == body[1].CheckoutRequestID
             r == ApplyResult(m[checkoutRequestId], body[1], now)
         IN [ transactions |-> MapSet(m, checkoutRequestId, r.transaction),
              res |-> IF r.threw THEN AckFailed ELSE AckSuccess,
              touched |-> {checkoutRequestId},
              threw |-> r.threw ]
    ELSE [ transactions |-> m, res |-> AckSuccess, touched |-> {},
           threw |-> FALSE ]

\* Lines 166-212: one delivery, handled from start to end.
Callback(body) ==
  /\ delivered < MaxCallbacks
  /\ delivered' = delivered + 1
  /\ LET done == HandleCallback(transactions, body, clock)
     IN /\ transactions' = done.transactions
        /\ cbRes' = done.res
        /\ partial' = IF done.threw
                        THEN partial \cup done.touched
                        ELSE partial \ done.touched
  /\ posted' = None
  /\ stkRes' = NoStkRes
  /\ getRes' = NoGetRes
  /\ readPartial' = FALSE
  /\ UNCHANGED << clock, inflight, received >>

(***************************************************************************)
(* The status route, lines 215-230: the route parameter is a string.       *)
(***************************************************************************)
GetStatus(checkoutRequestId) ==
  /\ IF MapHas(transactions, checkoutRequestId)
       THEN /\ getRes' = ResFound(transactions[checkoutRequestId])
            /\ readPartial' = (checkoutRequestId \in partial)
       ELSE /\ getRes' = Res404
            /\ readPartial' = FALSE
  /\ posted' = None
  /\ stkRes' = NoStkRes
  /\ cbRes' = NoAck
  /\ UNCHANGED << transactions, clock, inflight, received, delivered, partial >>

\* Time passes between handler runs.
Tick ==
  /\ clock < MaxClock
  /\ clock' = clock + 1
  /\ posted' = None
  /\ stkRes' = NoStkRes
  /\ cbRes' = NoAck
  /\ getRes' = NoGetRes
  /\ readPartial' = FALSE
  /\ UNCHANGED << transactions, inflight, received, delivered, partial, gateway >>

\* The steps of the server when the gateway's traffic is not followed: the
\* push request settles to any outcome and any delivery may arrive.
StkPushStartStep ==
  /\ \E phone \in PhoneInputs, amount \in AmountInputs,
        accountRef \in AccountRefInputs :
       StkPushStart(phone, amount, accountRef)
  /\ UNCHANGED gateway

TokenSettlesStep ==
  /\ \E h \in BagToSet(inflight), outcome \in TokenOutcomes :
       TokenSettles(h, outcome)
  /\ UNCHANGED gateway

PushSettlesStep ==
  /\ \E h \in BagToSet(inflight), outcome \in PushOutcomes :
       PushSettles(h, outcome)
  /\ UNCHANGED gateway

CallbackStep ==
  /\ \E body \in CallbackBodies : Callback(body)
  /\ UNCHANGED gateway

GetStatusStep ==
  /\ \E checkoutRequestId \in CheckoutIds : GetStatus(checkoutRequestId)
  /\ UNCHANGED gateway

Next ==
  \/ StkPushStartStep
  \/ TokenSettlesStep
  \/ PushSettlesStep
  \/ CallbackStep
  \/ GetStatusStep
  \/ Tick

Spec == Init /\ [][Next]_vars

(***************************************************************************)
(* The stk-push route on its own, over a wider range of request bodies:    *)
(* phones in every format the handler tells apart (and with blanks around  *)
(* them), amounts that are zero, negative or no number, references shorter *)
(* than, as long as and longer than AccountRefMax.                         *)
(***************************************************************************)
MaxBodyRequests == 1   \* stk-push requests received under BodySpec

ShortRef == <<"I", "N", "V", "-", "1">>
FullRef == <<"I", "N", "V", "-", "2", "0", "2", "6", "-", "0", "0", "1">>

PhoneBodies ==
  { Undef, Num(7), Str(<<>>),
    Str(<<"0", "7">>),
    Str(<<"+", "2", "5", "4", "7">>),
    Str(<<"2", "5", "4", "7">>),
    Str(<<"7">>),
    Str(<<"+", "1", "7">>),
    Str(<<" ", "0", "7", " ">>) }

AmountBodies ==
  { Undef, Num(0), Num(100), Num(0 - 5),
    Str(<<"1", "0", "0">>), Str(<<"0">>), Str(<<"-", "5">>),
    Str(<<"t", "e", "n">>) }

AccountRefBodies ==
  { Undef, Num(1), Str(<<>>), Str(ShortRef), Str(FullRef), Str(LongRef) }

BodyStkPushStartStep ==
  /\ received < MaxBodyRequests
  /\ \E phone \in PhoneBodies, amount \in AmountBodies,
        accountRef \in AccountRefBodies :
       StkPushStart(phone, amount, accountRef)
  /\ UNCHANGED gateway

BodyNext ==
  \/ BodyStkPushStartStep
  \/ TokenSettlesStep
  \/ PushSettlesStep

BodySpec == Init /\ [][BodyNext]_vars

(***************************************************************************)
(* The server with the gateway's traffic followed.  The gateway accepts a  *)
(* push request and issues its CheckoutRequestID, a key it issues once;    *)
(* from then on two messages are on their way, the response to the handler *)
(* suspended at line 126 and the one webhook for that key to the callback  *)
(* route, and they arrive in either order.  A request the gateway does not *)
(* accept settles by throwing.                                             *)
(***************************************************************************)
\* The steps below send no response of their own.
NoResponses ==
  /\ posted' = None
  /\ stkRes' = NoStkRes
  /\ cbRes' = NoAck
  /\ getRes' = NoGetRes
  /\ readPartial' = FALSE

AwaitsResponse(h) == \E r \in gateway.responses : r[1] = h

\* The gateway accepts the request handler h has posted and issues id.
GatewayIssues(h, id) ==
  /\ BagIn(h, inflight)
  /\ h.pc = "awaitPush"
  /\ GatewayAccepts(h.accessToken)
  /\ ~AwaitsResponse(h)
  /\ id \notin gateway.issued
  /\ gateway' = [gateway EXCEPT !.responses = @ \cup {<<h, id>>},
                                !.issued = @ \cup {id}]
  /\ NoResponses
  /\ UNCHANGED << transactions, clock, inflight, received, delivered, partial >>

\* The response of an accepted request reaches its handler (line 126 on).
ResponseArrives(r) ==
  /\ r \in gateway.responses
  /\ PushSettles(r[1], <<"resolves", r[2]>>)
  /\ gateway' = [gateway EXCEPT !.responses = @ \ {r}]

\* The request of handler h is not accepted: axios.post throws.
RequestFails(h) ==
  /\ ~AwaitsResponse(h)
  /\ PushSettles(h, <<"throws">>)
  /\ UNCHANGED gateway

\* The one webhook for an issued key reaches the callback route.
WebhookArrives(id, body) ==
  /\ id \in gateway.issued \ gateway.handled
  /\ body # None
  /\ body[1].CheckoutRequestID = id
  /\ Callback(body)
  /\ gateway' = [gateway EXCEPT !.handled = @ \cup {id}]

GatewayIssuesStep ==
  \E h \in BagToSet(inflight), id \in CheckoutIds : GatewayIssues(h, id)

ResponseArrivesStep == \E r \in gateway.responses : ResponseArrives(r)

RequestFailsStep == \E h \in BagToSet(inflight) : RequestFails(h)

WebhookArrivesStep ==
  \E id \in CheckoutIds, body \in CallbackBodies : WebhookArrives(id, body)

TrafficNext ==
  \/ StkPushStartStep
  \/ TokenSettlesStep
  \/ GatewayIssuesStep
  \/ ResponseArrivesStep
  \/ RequestFailsStep
  \/ WebhookArrivesStep

\* Node runs the continuation of a handler once the promise it awaits has
\* settled: a response that has arrived is handled.
TrafficSpec ==
  /\ Init
  /\ [][TrafficNext]_vars
  /\ WF_vars(ResponseArrivesStep)

(***************************************************************************)
(* Vocabulary of the properties.                                           *)
(***************************************************************************)
Terminal == {"completed", "failed"}

\* The fields a reconcile may set.
NoTerminalFields(t) ==
  /\ t.completedAt = None
  /\ t.errorMessage = None
  /\ t.actualAmount = None
  /\ t.receiptNumber = None
  /\ t.transactionDate = None
  /\ t.payerPhone = None

NoReceiptFields(t) ==
  /\ t.actualAmount = None
  /\ t.receiptNumber = None
  /\ t.transactionDate = None
  /\ t.payerPhone = None

\* The record as it was created: pending, with no field of a reconcile.
AsCreated(t) ==
  [t EXCEPT !.status = "pending", !.completedAt = None, !.errorMessage = None,
            !.actualAmount = None, !.receiptNumber = None,
            !.transactionDate = None, !.payerPhone = None]

\* The metadata of a delivery as the list of its items (none when absent).
ItemsOf(stkCallback) ==
  IF stkCallback.CallbackMetadata[1] = "list"
    THEN stkCallback.CallbackMetadata[2]
    ELSE <<>>

\* The value the item named `name` of a list carries: None without such an
\* item, else the value of the last one.
NamedValue(items, name) ==
  LET at == { i \in 1..Len(items) : items[i] # NullItem /\ items[i][1] = name }
  IN IF at = {} THEN None
     ELSE Some(items[CHOOSE i \in at : \A j \in at : j <= i][2])

\* The delivery names a record the store holds.
Known(body) ==
  /\ body # None
  /\ body[1].CheckoutRequestID \in DOMAIN transactions

\* A number above zero, or its decimal text.
PositiveAmount(amount) ==
  \/ IsNum(amount) /\ amount[2] > 0
  \/ /\ IsStr(amount)
     /\ amount[2] # <<>>
     /\ \A i \in 1..Len(amount[2]) : amount[2][i] \in {"0", "1", "2", "3", "4", "5", "6", "7", "8", "9"}
     /\ \E i \in 1..Len(amount[2]) : amount[2][i] # "0"

CountryCode == <<"2", "5", "4">>

\* Phone normalization as stated: by the first character of the value.
StatedPhone(s) ==
  IF s # <<>> /\ Head(s) = "0" THEN CountryCode \o Tail(s)
  ELSE IF s # <<>> /\ Head(s) = "+" THEN Tail(s)
  ELSE IF Len(s) >= 3 /\ SubSeq(s, 1, 3) = CountryCode THEN s
  ELSE CountryCode \o s

\* Phone normalization on the value without the blanks around it, where a
\* leading + is stripped only when the country code follows it.
StrippedPhone(s) ==
  LET t == Trim(s)
  IN IF t # <<>> /\ Head(t) = "0" THEN CountryCode \o Tail(t)
     ELSE IF Len(t) >= 4 /\ SubSeq(t, 1, 4) = <<"+">> \o CountryCode THEN Tail(t)
     ELSE IF Len(t) >= 3 /\ SubSeq(t, 1, 3) = CountryCode THEN t
     ELSE CountryCode \o t

\* A request body that passes the presence check with a phone that is text.
Wellformed(phone, amount, accountRef) ==
  /\ IsStr(phone) /\ phone[2] # <<>>
  /\ amount \notin {Undef, Num(0), Str(<<>>)}
  /\ accountRef \notin {Undef, Num(0), Str(<<>>)}

\* The handler of a request normalizes its phone by Rule, posts the result
\* to the gateway as PartyA and PhoneNumber, and stores it as the record's
\* phone.
PhoneFlows(Rule(_)) ==
  /\ \A phone \in PhoneBodies, amount \in AmountBodies,
        accountRef \in AccountRefBodies :
       (StkPushStart(phone, amount, accountRef)
        /\ Wellformed(phone, amount, accountRef))
       => \E h \in BagToSet(inflight') :
            /\ inflight' = inflight (+) SetToBag({h})
            /\ h.formattedPhone = Rule(phone[2])
  /\ \A h \in BagToSet(inflight), outcome \in TokenOutcomes :
       (TokenSettles(h, outcome) /\ posted' # None)
       => /\ posted'[1].PartyA = h.formattedPhone
          /\ posted'[1].PhoneNumber = h.formattedPhone
  /\ \A h \in BagToSet(inflight), id \in AllKeys :
       PushSettles(h, <<"resolves", id>>)
       => transactions'[id].phone = h.formattedPhone

\* The first 12 characters of an account reference.
First12(ref) == [i \in 1..(IF Len(ref) < 12 THEN Len(ref) ELSE 12) |-> ref[i]]

\* The step just taken was a run of the callback handler, or a segment of a
\* stk-push handler.
CallbackRan == cbRes' # NoAck
StkPushRan == received' # received \/ inflight' # inflight

(***************************************************************************)
(* C1.  Once a record's status is completed or failed, no later reconcile  *)
(* changes it.  The handler has no guard on the current status: lines      *)
(* 179-194 assign it anew on every delivery.                               *)
(***************************************************************************)
C1_TerminalStatusIsFinal ==
  [][CallbackRan =>
       \A k \in DOMAIN transactions :
         transactions[k].status \in Terminal =>
           transactions'[k].status = transactions[k].status]_vars

(***************************************************************************)
(* C2.  Reconcile is idempotent: a delivery whose body has already been    *)
(* applied to the record (at whatever time) leaves the record as it is.    *)
(***************************************************************************)
C2_ReconcileIdempotent ==
  [][\A body \in CallbackBodies :
       (/\ Callback(body)
        /\ Known(body)
        /\ \E t0 \in 0..MaxClock :
             LET was == transactions[body[1].CheckoutRequestID]
             IN was = ApplyResult(AsCreated(was), body[1], t0).transaction)
       => transactions' = transactions]_vars

C4_FailedInitiateLeavesStore ==
  [][(StkPushRan /\ stkRes'.status # 200) => transactions' = transactions]_vars

C4_Witness ==
  /\ stkRes = Res500("stk push error")
  /\ transactions # EmptyMap

(***************************************************************************)
(* C5.  A delivery without Body.stkCallback, or for a key that has no      *)
(* record, is acknowledged with ResultCode 0 and leaves the store as it    *)
(* was.                                                                    *)
(***************************************************************************)
C5_UnmatchedDeliveryIsNoOp ==
  [][\A body \in CallbackBodies :
       (Callback(body) /\ ~Known(body)) =>
         /\ cbRes' = AckSuccess
         /\ transactions' = transactions]_vars

C5_Witness ==
  /\ cbRes = AckSuccess
  /\ DOMAIN transactions = {"ws_CO_1"}
  /\ transactions["ws_CO_1"].status = "pending"

C7_FailureSetsErrorMessage ==
  [][\A body \in CallbackBodies :
       (/\ Callback(body)
        /\ Known(body)
        /\ body[1].ResultCode # Num(0)
        /\ transactions[body[1].CheckoutRequestID].status = "pending")
       => LET after == transactions'[body[1].CheckoutRequestID]
          IN /\ after.status = "failed"
             /\ after.errorMessage = body[1].ResultDesc
             /\ after.completedAt = None
             /\ NoReceiptFields(after)]_vars

C7_Witness ==
  /\ cbRes = AckSuccess
  /\ MapHas(transactions, "ws_CO_1")
  /\ transactions["ws_CO_1"].status = "failed"
  /\ transactions["ws_CO_1"].errorMessage = Some("Request cancelled by user")
  /\ transactions["ws_CO_1"].completedAt = None
  /\ NoReceiptFields(transactions["ws_CO_1"])

(***************************************************************************)
(* C8.  In every state, a record has completedAt or a receipt field only   *)
(* if it is completed and errorMessage only if it is failed.               *)
(***************************************************************************)
C8_FieldsFitStatus ==
  \A k \in DOMAIN transactions :
    LET t == transactions[k]
    IN /\ (t.completedAt # None \/ ~NoReceiptFields(t)) => t.status = "completed"
       /\ t.errorMessage # None => t.status = "failed"

(***************************************************************************)
(* C9.  A status query never returns a record that a reconcile has applied *)
(* in part: it shows the record before a reconcile or after the reconcile  *)
(* has run to its end.                                                     *)
(***************************************************************************)
C9_QueryNeverSeesPartialReconcile == ~readPartial

(***************************************************************************)
(* C10.  When the gateway returns a key that already has a record, the     *)
(* creation fails and the record is left as it was.                        *)
(***************************************************************************)
C10_DuplicateKeyKeepsRecord ==
  [][\A h \in BagToSet(inflight), id \in AllKeys :
       (PushSettles(h, <<"resolves", id>>) /\ MapHas(transactions, id)) =>
         /\ transactions' = transactions
         /\ stkRes'.status # 200]_vars

(***************************************************************************)
(* C11.  When the push request's response carries no CheckoutRequestID,    *)
(* initiate reports failure to the caller and stores no record, under the  *)
(* undefined key or any other.                                             *)
(***************************************************************************)
C11_MissingKeyStoresNothing ==
  [][\A h \in BagToSet(inflight) :
       PushSettles(h, <<"resolves", UndefinedKey>>) =>
         /\ stkRes'.status = 500
         /\ transactions' = transactions]_vars

(***************************************************************************)
(* C12.  When the token call throws, or resolves without a token, initiate *)
(* answers with the failure, posts no push request and creates no record.  *)
(***************************************************************************)
C12_TokenFailureStopsInitiate ==
  [][\A h \in BagToSet(inflight), outcome \in TokenOutcomes :
       (/\ TokenSettles(h, outcome)
        /\ (outcome[1] = "throws" \/ outcome[2] = Undef))
       => /\ posted' = None
          /\ stkRes'.status = 500
          /\ inflight' = End(h)
          /\ transactions' = transactions]_vars

(***************************************************************************)
(* C13.  An initiate whose phone, amount or account reference is missing,  *)
(* or whose amount is no positive number (zero, negative, or no number at  *)
(* all), is answered with the validation error before the token request is *)
(* made, and creates no record.                                            *)
(***************************************************************************)
C13_InvalidRequestIsRejected ==
  [][\A phone \in PhoneBodies, amount \in AmountBodies,
        accountRef \in AccountRefBodies :
       (/\ StkPushStart(phone, amount, accountRef)
        /\ (\/ phone = Undef
            \/ amount = Undef
            \/ accountRef = Undef
            \/ ~PositiveAmount(amount)))
       => /\ stkRes'.status = 400
          /\ inflight' = inflight
          /\ posted' = None
          /\ transactions' = transactions]_vars

(***************************************************************************)
(* C14.  The callback route answers every delivery with status 200, and a  *)
(* delivery that has Body.stkCallback, whether it matches a record or not  *)
(* and whatever its metadata holds, with ResultCode 0.                     *)
(***************************************************************************)
C14_CallbackAlwaysAcknowledges ==
  [][\A body \in CallbackBodies :
       Callback(body) =>
         /\ cbRes'.status = 200
         /\ body # None => cbRes'.ResultCode = 0]_vars

(***************************************************************************)
(* C15.  The status query is a pure read: for a key without a record it    *)
(* answers 404, for a key with a record it answers with exactly the record *)
(* the store holds, and either way the store is as it was.                 *)
(***************************************************************************)
C15_GetStatusIsPureRead ==
  [][\A k \in CheckoutIds :
       GetStatus(k) =>
         /\ transactions' = transactions
         /\ IF k \in DOMAIN transactions
              THEN /\ getRes'.status = 200
                   /\ getRes'.transaction = Some(transactions[k])
              ELSE /\ getRes'.status = 404
                   /\ getRes'.transaction = None]_vars

C15_Witness ==
  /\ getRes.status = 200
  /\ DOMAIN transactions = AllKeys
  /\ getRes.transaction = Some(transactions["ws_CO_1"])
  /\ transactions["ws_CO_1"].status = "completed"
  /\ transactions["ws_CO_1"].receiptNumber = Some("QKR4")

(***************************************************************************)
(* C16.  Phone normalization.  As stated: a leading 0 is replaced by 254,  *)
(* a leading + is stripped and nothing else removed or added, a value that *)
(* starts with 254 is passed through, any other value is prefixed with     *)
(* 254; the result is what is posted to the gateway and what is stored as  *)
(* the record's phone.                                                     *)
(***************************************************************************)
C16_PhoneNormalizationAsStated == [][PhoneFlows(StatedPhone)]_vars

(***************************************************************************)
(* C16, amended.  The rule applies to the value without the blanks around  *)
(* it, and a leading + is stripped only from a value that starts with      *)
(* +254: any other value that starts with + is prefixed with 254 like any  *)
(* other value.  The result is what is posted and what is stored.          *)
(***************************************************************************)
C16_PhoneNormalization == [][PhoneFlows(StrippedPhone)]_vars

C16_Witness ==
  /\ stkRes.status = 200
  /\ MapHas(transactions, "ws_CO_1")
  /\ transactions["ws_CO_1"].phone = <<"2", "5", "4", "+", "1", "7">>

(***************************************************************************)
(* C17.  The record a successful initiate creates holds the account        *)
(* reference truncated to its first 12 characters, the value that was      *)
(* posted to the gateway as AccountReference, whatever the length of the   *)
(* reference in the request.                                               *)
(***************************************************************************)
C17_StoredAccountRefIsTruncated ==
  [][/\ \A h \in BagToSet(inflight), outcome \in TokenOutcomes :
          (TokenSettles(h, outcome) /\ posted' # None)
          => posted'[1].AccountReference = First12(h.accountRef[2])
     /\ \A h \in BagToSet(inflight), id \in AllKeys :
          PushSettles(h, <<"resolves", id>>)
          => transactions'[id].accountRef = First12(h.accountRef[2])]_vars

(***************************************************************************)
(* C18.  A delivery for key k changes at most the status and the fields of *)
(* a reconcile (completedAt, errorMessage, actualAmount, receiptNumber,    *)
(* transactionDate, payerPhone) of the record under k: that record's       *)
(* phone, amount, accountRef and createdAt, every record under another     *)
(* key, and the set of keys are as they were.                              *)
(***************************************************************************)
C18_ReconcileFrame ==
  [][\A body \in CallbackBodies :
       Callback(body) =>
         /\ DOMAIN transactions' = DOMAIN transactions
         /\ \A k \in DOMAIN transactions :
              IF body # None /\ k = body[1].CheckoutRequestID
                THEN /\ transactions'[k].phone = transactions[k].phone
                     /\ transactions'[k].amount = transactions[k].amount
                     /\ transactions'[k].accountRef = transactions[k].accountRef
                     /\ transactions'[k].createdAt = transactions[k].createdAt
                ELSE transactions'[k] = transactions[k]]_vars

C18_Witness ==
  /\ cbRes = AckSuccess
  /\ clock = 1
  /\ DOMAIN transactions = AllKeys
  /\ transactions["ws_CO_1"].status = "failed"
  /\ transactions["ws_CO_1"].createdAt = 0
  /\ transactions[UndefinedKey].status = "pending"

(***************************************************************************)
(* C19.  Whenever the callback handler answers with the negative           *)
(* acknowledgment (ResultCode 1) because processing threw, the store is as *)
(* it was before the delivery: no record's status, completedAt or receipt  *)
(* field has changed.                                                      *)
(***************************************************************************)
C19_NegativeAckLeavesStore ==
  [][(CallbackRan /\ cbRes'.ResultCode = 1) => transactions' = transactions]_vars

(***************************************************************************)
(* C20.  Under every interleaving of initiate and reconcile: once the      *)
(* gateway has accepted a push request and the one webhook for the key it  *)
(* issued has been handled, the record under that key eventually has a     *)
(* terminal status, also when the webhook is handled before the handler    *)
(* has stored the pending record.                                          *)
(***************************************************************************)
C20_NotifiedBecomesTerminal ==
  \A id \in CheckoutIds :
    (id \in gateway.handled)
      ~> (MapHas(transactions, id) /\ transactions[id].status \in Terminal)

====
